---- MODULE Spec2Model ----
(***************************************************************************)
(* The meter-run evaluation and portfolio aggregation of                   *)
(* datastore/models.py: Project.run_meter, ProjectBlock.run_meters,        *)
(* ProjectBlock.compute_summary_timeseries and the tables they write.      *)
(*                                                                         *)
(* Every Model.save() commits on its own (no transaction is opened in the  *)
(* source), so a call that raises leaves the rows saved so far.            *)
(***************************************************************************)
EXTENDS Integers, Sequences, FiniteSets, TLC

(* ------------------------------ bounds -------------------------------- *)
\* MeterRun rows the store may hold, in all and per consumption stream.
MaxRuns == 4
MaxRunsPerStream == 2
\* FuelTypeSummary rows past which compute_summary_timeseries is not called.
MaxSummaries == 3
\* Days per calendar month of the model's calendar.
MonthLen == 2
\* The day now() falls on.
NowDay == 3

(* --------------------------- optional values --------------------------- *)
\* Python's None and a present value.
None == <<>>
Some(x) == <<x>>
Val(o) == o[1]

(* ------------------------------- floats -------------------------------- *)
\* A float is NaN or an exact fraction num/den (den > 0, lowest terms).
RECURSIVE GCD(_, _)
GCD(a, b) == IF b = 0 THEN a ELSE GCD(b, a % b)

Abs(x) == IF x < 0 THEN -x ELSE x

Frac(n, d) ==
    LET g == GCD(Abs(n), d)
    IN  [nan |-> FALSE, num |-> n \div g, den |-> d \div g]

Fl(x) == [nan |-> FALSE, num |-> x, den |-> 1]
NaN == [nan |-> TRUE, num |-> 0, den |-> 1]

FAdd(a, b) == Frac(a.num * b.den + b.num * a.den, a.den * b.den)
FSub(a, b) == Frac(a.num * b.den - b.num * a.den, a.den * b.den)
FLess(a, b) == a.num * b.den < b.num * a.den

\* The entries of a list that are not NaN.
RECURSIVE NotNaN(_)
NotNaN(xs) ==
    IF xs = <<>> THEN <<>>
    ELSE IF Head(xs).nan THEN NotNaN(Tail(xs))
         ELSE <<Head(xs)>> \o NotNaN(Tail(xs))

RECURSIVE FSum(_)
FSum(xs) == IF xs = <<>> THEN Fl(0) ELSE FAdd(Head(xs), FSum(Tail(xs)))

\* The mean of the entries that are not NaN, in the place of their sum.
mean_of_values(xs) ==
    IF NotNaN(xs) = <<>> THEN NaN
    ELSE Frac(FSum(NotNaN(xs)).num, FSum(NotNaN(xs)).den * Len(NotNaN(xs)))

\* numpy.nansum: NaN entries count as zero.
nansum(xs) == FSum(NotNaN(xs))

\* numpy.nanmean: the mean of the entries that are not NaN, NaN when none is.
nanmean(xs) ==
    LET ys == NotNaN(xs)
        s  == FSum(ys)
    IN  IF ys = <<>> THEN NaN ELSE Frac(s.num, s.den * Len(ys))

Min2(a, b) == IF a < b THEN a ELSE b

(* ------------------------------ calendar ------------------------------- *)
\* date.strftime("%Y-%m"): the month a day falls in.
strftime_Ym(d) == d \div MonthLen
\* datetime.strptime(month, "%Y-%m"): the first day of the month.
strptime_Ym(m) == m * MonthLen
\* django.utils.timezone.now()
now == NowDay

(* ------------------------------ fixtures ------------------------------- *)
FUEL_TYPE_CHOICES == [E |-> "electricity", NG |-> "natural_gas"]

Projects == {"p1", "p2"}
\* ProjectBlock.project.all(), in id order.
BlockProjects == <<"p1", "p2">>
Streams == {"c1", "c2", "c3"}
\* Project.consumptionmetadata_set.all(), in id order.
StreamsOf(p) == IF p = "p1" THEN <<"c1", "c2">> ELSE <<"c3">>

Range(s) == {s[i] : i \in DOMAIN s}

\* Project rows: a weather station (p1) and a zipcode (p2), as the tests set.
RegularProject ==
    [p1 |-> [zipcode |-> None, weather_station |-> Some("722880"),
             latitude |-> None, longitude |-> None,
             reporting_period_start |-> 1],
     p2 |-> [zipcode |-> Some("91104"), weather_station |-> None,
             latitude |-> None, longitude |-> None,
             reporting_period_start |-> 0]]

NoDescriptor(pr) ==
    [pr EXCEPT !.zipcode = None, !.weather_station = None,
               !.latitude = None, !.longitude = None]

RegularMetadata ==
    [c1 |-> [project |-> "p1", fuel_type |-> "E"],
     c2 |-> [project |-> "p1", fuel_type |-> "NG"],
     c3 |-> [project |-> "p2", fuel_type |-> "E"]]

\* The stores the model starts from: the regular one, and the ones with one
\* project without a usable location or one stream of a fuel type that is
\* not a key of FUEL_TYPE_CHOICES (choices are not enforced by save()).
Fixtures ==
    {[project |-> RegularProject, consumption_metadata |-> RegularMetadata]}
    \cup {[project |-> [RegularProject EXCEPT !["p1"] = NoDescriptor(@)],
           consumption_metadata |-> RegularMetadata]}
    \cup {[project |-> [RegularProject EXCEPT
                          !["p2"] = [NoDescriptor(@) EXCEPT !.latitude = Some(41)]],
           consumption_metadata |-> RegularMetadata]}
    \cup {[project |-> RegularProject,
           consumption_metadata |-> [RegularMetadata EXCEPT ![c].fuel_type = "X"]]
          : c \in {"c2", "c3"}}

VARIABLES
    project,                \* Project rows
    consumption_metadata,   \* ConsumptionMetadata rows
    meter_run,              \* MeterRun rows; the index is the id and the order of added
    daily_usage_baseline,   \* DailyUsageBaseline rows, in insertion order
    daily_usage_reporting,  \* DailyUsageReporting rows
    monthly_average_usage_baseline,
    monthly_average_usage_reporting,
    fuel_type_summary,      \* FuelTypeSummary rows; the index is the id
    daily_usage_summary,    \* [baseline, actual, reporting]: DailyUsageSummary* rows
    monthly_usage_summary,  \* [baseline, actual, reporting]: MonthlyUsageSummary* rows
    outcome                 \* how the last call ended, and what it was given

vars == <<project, consumption_metadata, meter_run, daily_usage_baseline,
          daily_usage_reporting, monthly_average_usage_baseline,
          monthly_average_usage_reporting, fuel_type_summary,
          daily_usage_summary, monthly_usage_summary, outcome>>

\* The tables run_meter writes, as one value.
MeterTables ==
    [meter_run |-> meter_run,
     daily_usage_baseline |-> daily_usage_baseline,
     daily_usage_reporting |-> daily_usage_reporting,
     monthly_average_usage_baseline |-> monthly_average_usage_baseline,
     monthly_average_usage_reporting |-> monthly_average_usage_reporting]

(* ----------------------- external collaborators ------------------------ *)
FuelTags == {"electricity", "natural_gas"}

\* What meter.evaluate found for one fuel type: each entry is what
\* meter_results.get_data(name, tags) gives, None or a value.
FullFit(tag) ==
    IF tag = "electricity"
    THEN [annualized_usage_baseline |-> Some(Fl(100)),
          annualized_usage_reporting |-> Some(Fl(60)),
          gross_savings |-> Some(Fl(40)),
          cvrmse_baseline |-> Some(Fl(19)),
          cvrmse_reporting |-> Some(Fl(19)),
          model_params_baseline |-> Some(1),
          model_params_reporting |-> Some(2)]
    ELSE [annualized_usage_baseline |-> Some(Fl(50)),
          annualized_usage_reporting |-> Some(Fl(45)),
          gross_savings |-> Some(Fl(5)),
          cvrmse_baseline |-> Some(Fl(19)),
          cvrmse_reporting |-> Some(Fl(19)),
          model_params_baseline |-> Some(3),
          model_params_reporting |-> Some(4)]

\* The fits that lack something, or sit on the CVRMSE threshold: no baseline
\* fit at all, no reporting usage, a reporting CVRMSE of exactly 20.
PartialFits(tag) ==
    {[FullFit(tag) EXCEPT !.annualized_usage_baseline = None,
                          !.cvrmse_baseline = None,
                          !.model_params_baseline = None],
     [FullFit(tag) EXCEPT !.annualized_usage_reporting = None,
                          !.gross_savings = None],
     [FullFit(tag) EXCEPT !.cvrmse_reporting = Some(Fl(20))]}

AllFull == [tag \in FuelTags |-> FullFit(tag)]

\* What the collaborators do during one run_meter call: the meter's results,
\* how the weather source answers, and whether a call of the stream `stream`
\* raises: "weather" (daily_temperatures or transform), "save" (the store,
\* at the first DailyUsageReporting row).
CleanEnv ==
    [meter_results |-> AllFull, weather |-> "exact",
     fault |-> [kind |-> "none", stream |-> "c1"]]

Envs(p) ==
    {CleanEnv}
    \cup UNION {{[CleanEnv EXCEPT !.meter_results[tag] = f] : f \in PartialFits(tag)}
                : tag \in FuelTags}
    \cup {[CleanEnv EXCEPT !.weather = w] : w \in {"short", "long", "nan"}}
    \cup {[CleanEnv EXCEPT !.fault = [kind |-> k, stream |-> c]] :
            k \in {"weather", "save"}, c \in Range(StreamsOf(p))}

\* The weather source's temperature of a day.
Temperature(d) == Fl(30 + 10 * (d % 3))

\* weather_source.daily_temperatures(period, unit): one value per day of the
\* period when the source answers as documented ("exact").
daily_temperatures(env, start, ndays) ==
    LET n    == IF ndays < 0 THEN 0 ELSE ndays
        base == [i \in 1..n |-> Temperature(start + i - 1)]
    IN  CASE env.weather = "short" -> SubSeq(base, 1, n - 1)
          [] env.weather = "long"  -> Append(base, Temperature(start + n))
          [] env.weather = "nan"   -> [i \in 1..n |-> IF i = 1 THEN NaN ELSE base[i]]
          [] OTHER                 -> base

\* model.transform(avg_temps, params): one usage value per temperature.
transform(avg_temps, params) ==
    [i \in 1..Len(avg_temps) |->
        IF avg_temps[i].nan THEN NaN ELSE Fl(avg_temps[i].num + params)]

\* json.dumps of a parameter dict.
json_dumps(params) == <<"json", params>>

\* consumption_data.data.index[0]: the day of a stream's first record.
EarliestRecord(c) == IF c = "c1" THEN 0 ELSE 1

(* ------------------------------- Project ------------------------------- *)
lat_lng(p) ==
    IF project[p].latitude # None /\ project[p].longitude # None
    THEN Some(<<Val(project[p].latitude), Val(project[p].longitude)>>)
    ELSE None

\* Project.eemeter_project: "ok", or the exception it raises. Location()
\* raises ValueError when it is given no descriptor; FUEL_TYPE_CHOICES[...]
\* raises KeyError in eemeter_consumption_data.
eemeter_project(p) ==
    LET located == \/ lat_lng(p) # None
                   \/ project[p].weather_station # None
                   \/ project[p].zipcode # None
    IN  IF ~located THEN "ValueError"
        ELSE IF \E c \in Range(StreamsOf(p)) :
                   consumption_metadata[c].fuel_type \notin DOMAIN FUEL_TYPE_CHOICES
             THEN "KeyError"
             ELSE "ok"

\* Lines 103-113: the evaluation window [start, end) of a call.
WindowStart(p, start_date) ==
    IF start_date # None THEN Val(start_date)
    ELSE LET firsts == {EarliestRecord(c) : c \in Range(StreamsOf(p))} \cup {now}
         IN  CHOOSE d \in firsts : \A e \in firsts : d <= e

WindowEnd(end_date) == IF end_date # None THEN Val(end_date) ELSE now

\* The month of the window's start followed by the month of every day.
months_of_every_day(start, n) ==
    <<strftime_Ym(start)>> \o [i \in 1..n |-> strftime_Ym(start + i - 1)]

\* The months the daily loop visits: month_names after n iterations.
RECURSIVE month_names(_, _)
month_names(start, n) ==
    IF n = 0 THEN <<strftime_Ym(start)>>
    ELSE LET prev == month_names(start, n - 1)
             current_month == strftime_Ym(start + n - 1)
         IN  IF current_month # prev[Len(prev)] THEN Append(prev, current_month)
             ELSE prev

\* month_groups[month] after n iterations over values.
RECURSIVE month_group(_, _, _, _)
month_group(values, start, n, month) ==
    IF n = 0 THEN <<>>
    ELSE LET rest == month_group(values, start, n - 1, month)
         IN  IF strftime_Ym(start + n - 1) = month THEN Append(rest, values[n])
             ELSE rest

\* Savings in which an absent usage counts as zero.
savings_from_zero(annual_usage_baseline, annual_usage_reporting) ==
    Some(FSub(IF annual_usage_baseline = None THEN Fl(0)
              ELSE Val(annual_usage_baseline),
              IF annual_usage_reporting = None THEN Fl(0)
              ELSE Val(annual_usage_reporting)))

\* Lines 150-152: annual_savings, None unless both usages are present.
annual_savings(annual_usage_baseline, annual_usage_reporting) ==
    IF annual_usage_baseline # None /\ annual_usage_reporting # None
    THEN Some(FSub(Val(annual_usage_baseline), Val(annual_usage_reporting)))
    ELSE None

\* Lines 132-188: the MeterRun row of stream c, from the meter's results.
meter_run_row(p, c, fuel_type_tag, fit) ==
    [project |-> p,
     consumption_metadata |-> c,
     annual_usage_baseline |-> fit.annualized_usage_baseline,
     annual_usage_reporting |-> fit.annualized_usage_reporting,
     gross_savings |-> fit.gross_savings,
     annual_savings |-> annual_savings(fit.annualized_usage_baseline,
                                       fit.annualized_usage_reporting),
     meter_type |-> IF fuel_type_tag = "electricity" THEN "DFLT_RES_E"
                    ELSE "DFLT_RES_NG",
     model_parameter_json_baseline |->
        IF fit.model_params_baseline # None
        THEN Some(json_dumps(Val(fit.model_params_baseline))) ELSE None,
     model_parameter_json_reporting |->
        IF fit.model_params_reporting # None
        THEN Some(json_dumps(Val(fit.model_params_reporting))) ELSE None,
     cvrmse_baseline |-> fit.cvrmse_baseline,
     cvrmse_reporting |-> fit.cvrmse_reporting]

\* Lines 165-168 and 172-175: the local is bound only when the fit has
\* parameters; otherwise it keeps what the previous pass left (None: unbound).
bound_params(fit_params, previous) ==
    IF fit_params # None THEN fit_params ELSE previous

\* Lines 205-212: the rows the zipped loop saves for one regime.
daily_rows(id, values, start, n) ==
    [i \in 1..n |-> [meter_run |-> id, value |-> values[i], date |-> start + i - 1]]

\* The mean of a month's values with no case for a month without values.
mean_of_month(values) == nanmean(values)

\* Lines 226-227: 0 if values == [] else np.nanmean(values).
monthly_average(values) == IF values = <<>> THEN Fl(0) ELSE nanmean(values)

\* Lines 222-234: the rows the monthly loop saves for one regime.
monthly_rows(id, values, start, n) ==
    [k \in 1..Len(month_names(start, n)) |->
        [meter_run |-> id,
         value |-> monthly_average(month_group(values, start, n,
                                               month_names(start, n)[k])),
         date |-> strptime_Ym(month_names(start, n)[k])]]

\* The passes of zip(values_baseline, values_reporting, range(days)).
zip_length(values_baseline, values_reporting, ndays) ==
    Min2(Min2(Len(values_baseline), Len(values_reporting)),
         IF ndays < 0 THEN 0 ELSE ndays)

\* Lines 205-234 on tables t1 (the MeterRun id saved): the daily and monthly
\* rows; with save_fault the save of the first DailyUsageReporting row raises.
save_series(t1, id, values_baseline, values_reporting, start, n, save_fault) ==
    IF save_fault /\ n >= 1
    THEN [tables |-> [t1 EXCEPT !.daily_usage_baseline =
                        Append(@, daily_rows(id, values_baseline, start, n)[1])],
          raised |-> "DatabaseError"]
    ELSE [tables |-> [t1 EXCEPT
            !.daily_usage_baseline = @ \o daily_rows(id, values_baseline, start, n),
            !.daily_usage_reporting = @ \o daily_rows(id, values_reporting, start, n),
            !.monthly_average_usage_baseline =
                @ \o monthly_rows(id, values_baseline, start, n),
            !.monthly_average_usage_reporting =
                @ \o monthly_rows(id, values_reporting, start, n)],
          raised |-> "none"]

\* Lines 197-234: the two projections of the temperatures, then the rows.
project_usage(t1, id, values_baseline, values_reporting, start, ndays, save_fault) ==
    save_series(t1, id, values_baseline, values_reporting, start,
                zip_length(values_baseline, values_reporting, ndays), save_fault)

\* Lines 190-234 once the MeterRun row is saved (tables t1); mpb and mpr are
\* the locals model_parameters_baseline/_reporting.
after_save(t1, id, c, env, start, ndays, mpb, mpr) ==
    IF env.fault = [kind |-> "weather", stream |-> c]
    THEN [tables |-> t1, raised |-> "CollaboratorError"]
    ELSE IF mpb = None \/ mpr = None
    THEN [tables |-> t1, raised |-> "UnboundLocalError"]
    ELSE project_usage(t1, id,
                       transform(daily_temperatures(env, start, ndays), Val(mpb)),
                       transform(daily_temperatures(env, start, ndays), Val(mpr)),
                       start, ndays,
                       env.fault = [kind |-> "save", stream |-> c])

\* A save that overwrites the stream's MeterRun when it has one.
update_meter_run(t, row) ==
    IF \E i \in DOMAIN t.meter_run :
            t.meter_run[i].consumption_metadata = row.consumption_metadata
    THEN [t EXCEPT !.meter_run =
            [i \in DOMAIN t.meter_run |->
                IF t.meter_run[i].consumption_metadata = row.consumption_metadata
                THEN row ELSE t.meter_run[i]]]
    ELSE [t EXCEPT !.meter_run = Append(@, row)]

\* Lines 177-190: meter_run.save() of a new MeterRun inserts a row.
save_meter_run(t, row) == [t EXCEPT !.meter_run = Append(@, row)]

\* One pass of the loop of lines 118-234, for stream c with the meter's
\* results fit: the tables it leaves and "none" or the exception raised.
EvalStream(t, p, c, fuel_type_tag, fit, env, start, ndays, mpb, mpr) ==
    IF fuel_type_tag \notin FuelTags
    THEN [tables |-> t, raised |-> "NotImplementedError"]
    ELSE after_save(save_meter_run(t, meter_run_row(p, c, fuel_type_tag, fit)),
                    Len(t.meter_run) + 1, c, env, start, ndays, mpb, mpr)

\* The loop of lines 118-234 over the project's streams cs; mpb and mpr are
\* the two locals as the previous pass left them.
RECURSIVE EvalStreams(_, _, _, _, _, _, _, _)
NextStream(r, p, cs, env, start, ndays, mpb, mpr) ==
    IF r.raised # "none" THEN r
    ELSE EvalStreams(r.tables, p, cs, env, start, ndays, mpb, mpr)

FitOf(env, c) == env.meter_results[FUEL_TYPE_CHOICES[consumption_metadata[c].fuel_type]]

EvalStreams(t, p, cs, env, start, ndays, mpb, mpr) ==
    IF cs = <<>> THEN [tables |-> t, raised |-> "none"]
    ELSE NextStream(
            EvalStream(t, p, Head(cs),
                       FUEL_TYPE_CHOICES[consumption_metadata[Head(cs)].fuel_type],
                       FitOf(env, Head(cs)), env, start, ndays,
                       bound_params(FitOf(env, Head(cs)).model_params_baseline, mpb),
                       bound_params(FitOf(env, Head(cs)).model_params_reporting, mpr)),
            p, Tail(cs), env, start, ndays,
            bound_params(FitOf(env, Head(cs)).model_params_baseline, mpb),
            bound_params(FitOf(env, Head(cs)).model_params_reporting, mpr))

\* What a run_meter call on tables t gives: the tables it leaves, how it
\* ended ("returned" a list, "skipped" with a warning and None, or the
\* exception), the ids of the MeterRuns returned, the window evaluated.
CallResult(p, tables, result, returned, start, ndays) ==
    [tables |-> tables, project |-> p, result |-> result,
     returned |-> returned, start |-> start, days |-> ndays]

\* Lines 117-236: the loop's end.
loop_result(t, p, r, start, ndays) ==
    IF r.raised # "none" THEN CallResult(p, r.tables, r.raised, <<>>, start, ndays)
    ELSE CallResult(p, r.tables, "returned",
                    [i \in 1..(Len(r.tables.meter_run) - Len(t.meter_run)) |->
                        Len(t.meter_run) + i],
                    start, ndays)

\* run_meter with the meter type looked at before the project's location.
run_meter_type_first(t, p, meter_type, env, start, ndays) ==
    IF meter_type # "residential"
    THEN CallResult(p, t, "NotImplementedError", <<>>, start, ndays)
    ELSE IF eemeter_project(p) = "ValueError"
    THEN CallResult(p, t, "skipped", <<>>, start, ndays)
    ELSE IF eemeter_project(p) # "ok"
    THEN CallResult(p, t, eemeter_project(p), <<>>, start, ndays)
    ELSE loop_result(t, p,
                     EvalStreams(t, p, StreamsOf(p), env, start, ndays, None, None),
                     start, ndays)

\* Lines 89-236 for the window [start, start + ndays).
run_meter_window(t, p, meter_type, env, start, ndays) ==
    IF eemeter_project(p) = "ValueError"
    THEN CallResult(p, t, "skipped", <<>>, start, ndays)
    ELSE IF eemeter_project(p) # "ok"
    THEN CallResult(p, t, eemeter_project(p), <<>>, start, ndays)
    ELSE IF meter_type # "residential"
    THEN CallResult(p, t, "NotImplementedError", <<>>, start, ndays)
    ELSE loop_result(t, p,
                     EvalStreams(t, p, StreamsOf(p), env, start, ndays, None, None),
                     start, ndays)

\* Project.run_meter on tables t.
run_meter(t, p, meter_type, start_date, end_date, env) ==
    run_meter_window(t, p, meter_type, env, WindowStart(p, start_date),
                     WindowEnd(end_date) - WindowStart(p, start_date))

\* ProjectBlock.run_meters from tables t: run_meter for each project of ps in
\* turn, with envs[p] the collaborators' behaviour during p's call. An
\* exception of one call ends the loop. Gives the tables and the calls made.
RECURSIVE run_meters(_, _, _, _, _, _, _)
NextProject(r, calls, ps, meter_type, start_date, end_date, envs) ==
    IF r.result \notin {"returned", "skipped"}
    THEN [tables |-> r.tables, calls |-> Append(calls, r)]
    ELSE run_meters(r.tables, Append(calls, r), ps, meter_type, start_date,
                    end_date, envs)

run_meters(t, calls, ps, meter_type, start_date, end_date, envs) ==
    IF ps = <<>> THEN [tables |-> t, calls |-> calls]
    ELSE NextProject(run_meter(t, Head(ps), meter_type, start_date, end_date,
                               envs[Head(ps)]),
                     calls, Tail(ps), meter_type, start_date, end_date, envs)

(* ----------------------------- ProjectBlock ---------------------------- *)
\* A set of numbers in ascending order: sorted(keys).
RECURSIVE sorted(_)
sorted(S) ==
    IF S = {} THEN <<>>
    ELSE LET m == CHOOSE x \in S : \A y \in S : x <= y
         IN  <<m>> \o sorted(S \ {m})

\* Rows in the order of Meta.ordering = ['date'] (stable on equal dates).
RECURSIVE by_date(_)
by_date(rows) ==
    IF rows = <<>> THEN <<>>
    ELSE LET i == CHOOSE k \in DOMAIN rows :
                    /\ \A j \in DOMAIN rows : rows[k].date <= rows[j].date
                    /\ \A j \in 1..(k - 1) : rows[j].date # rows[k].date
         IN  <<rows[i]>> \o by_date(SubSeq(rows, 1, i - 1)
                                    \o SubSeq(rows, i + 1, Len(rows)))

IsRowOf(id, row) == row.meter_run = id
\* meter_run.dailyusagebaseline_set.all() and its reporting twin.
dailyusagebaseline_set(t, id) ==
    by_date(SelectSeq(t.daily_usage_baseline, LAMBDA row : IsRowOf(id, row)))
dailyusagereporting_set(t, id) ==
    by_date(SelectSeq(t.daily_usage_reporting, LAMBDA row : IsRowOf(id, row)))

\* The ids of the MeterRuns of stream c.
RunsOf(t, c) == {i \in DOMAIN t.meter_run : t.meter_run[i].consumption_metadata = c}

\* The oldest MeterRun of the stream in the place of the latest.
first_added(t, c) == CHOOSE i \in RunsOf(t, c) : \A j \in RunsOf(t, c) : i <= j

\* c.meterrun_set.latest('added'); raises DoesNotExist when RunsOf is empty.
latest_added(t, c) == CHOOSE i \in RunsOf(t, c) : \A j \in RunsOf(t, c) : j <= i

\* Project.recent_meter_runs: the latest run of every stream of the project.
recent_meter_runs(t, p) ==
    [k \in DOMAIN StreamsOf(p) |-> latest_added(t, StreamsOf(p)[k])]

\* An actual series that never leaves the baseline.
actual_value_without_switch(p, date, baseline_value, reporting_value) ==
    baseline_value

\* The switch to the reporting value made on the reporting start itself.
actual_value_from_start(p, date, baseline_value, reporting_value) ==
    IF date >= project[p].reporting_period_start THEN reporting_value
    ELSE baseline_value

\* Lines 296-299: the value a day contributes to the actual series.
actual_value(p, date, baseline_value, reporting_value) ==
    IF date > project[p].reporting_period_start THEN reporting_value
    ELSE baseline_value

\* The zipped loop with each day filed under the month of the day after it.
appended_to_next_day_month(t, p, id) ==
    LET bs == dailyusagebaseline_set(t, id)
        rs == dailyusagereporting_set(t, id)
    IN  [i \in 1..Min2(Len(bs), Len(rs)) |->
            [fuel_type |-> consumption_metadata[
                              t.meter_run[id].consumption_metadata].fuel_type,
             date |-> bs[i].date,
             month |-> strftime_Ym(bs[i].date + 1),
             baseline |-> bs[i].value,
             actual |-> actual_value(p, bs[i].date, bs[i].value, rs[i].value),
             reporting |-> rs[i].value]]

\* Lines 286-306 for one MeterRun: what each pair of zipped rows appends.
Appended(t, p, id) ==
    LET bs == dailyusagebaseline_set(t, id)
        rs == dailyusagereporting_set(t, id)
        fuel_type == consumption_metadata[t.meter_run[id].consumption_metadata].fuel_type
    IN  [i \in 1..Min2(Len(bs), Len(rs)) |->
            [fuel_type |-> fuel_type,
             date |-> bs[i].date,
             month |-> strftime_Ym(bs[i].date),
             baseline |-> bs[i].value,
             actual |-> actual_value(p, bs[i].date, bs[i].value, rs[i].value),
             reporting |-> rs[i].value]]

\* The loops of lines 270-306 over the runs `ids` of project p, then over the
\* projects ps: everything appended to data_by_fuel_type, in order, with the
\* fuel types in the order their entry was created.
RECURSIVE GatherRuns(_, _, _, _)
GatherRuns(t, p, ids, acc) ==
    IF ids = <<>> THEN acc
    ELSE LET id == Head(ids)
             ft == consumption_metadata[t.meter_run[id].consumption_metadata].fuel_type
         IN  GatherRuns(t, p, Tail(ids),
                 [fuel_types |-> IF ft \in Range(acc.fuel_types) THEN acc.fuel_types
                                 ELSE Append(acc.fuel_types, ft),
                  data |-> acc.data \o Appended(t, p, id)])

RECURSIVE GatherProjects(_, _, _)
GatherProjects(t, ps, acc) ==
    IF ps = <<>> THEN acc
    ELSE GatherProjects(t, Tail(ps),
             GatherRuns(t, Head(ps), recent_meter_runs(t, Head(ps)), acc))

\* The loop of lines 274-276 without its assert.
no_assert(t, id) == TRUE

\* Line 276: assert len(baseline) == len(reporting) for one MeterRun.
assert_same_length(t, id) ==
    Len(dailyusagebaseline_set(t, id)) = Len(dailyusagereporting_set(t, id))

\* The first exception of the loops of lines 270-276: recent_meter_runs
\* raises DoesNotExist for a stream without a MeterRun, the assert of line
\* 276 fails for a run whose two row sets differ in length; "none" otherwise.
RECURSIVE FirstFault(_, _)
FirstFault(t, ps) ==
    IF ps = <<>> THEN "none"
    ELSE IF \E c \in Range(StreamsOf(Head(ps))) : RunsOf(t, c) = {}
         THEN "DoesNotExist"
    ELSE IF \E c \in Range(StreamsOf(Head(ps))) :
                ~assert_same_length(t, latest_added(t, c))
         THEN "AssertionError"
    ELSE FirstFault(t, Tail(ps))

\* data_by_fuel_type[fuel_type][kind + "_by_date"][date] and ..."_by_month"[month].
RECURSIVE Pick(_, _, _, _, _)
Pick(data, fuel_type, kind, by, key) ==
    IF data = <<>> THEN <<>>
    ELSE LET e == Head(data)
             rest == Pick(Tail(data), fuel_type, kind, by, key)
         IN  IF e.fuel_type = fuel_type /\ e[by] = key THEN <<e[kind]>> \o rest
             ELSE rest

Kinds == {"baseline", "actual", "reporting"}

\* Lines 308-339 for the fuel type whose FuelTypeSummary gets id `id`.
SummaryRows(data, fuel_type, id, by) ==
    LET labels == sorted({data[i][by] : i \in {j \in DOMAIN data :
                                                 data[j].fuel_type = fuel_type}})
    IN  [kind \in Kinds |->
            [k \in DOMAIN labels |->
                [fuel_type_summary |-> id,
                 value |-> nansum(Pick(data, fuel_type, kind, by, labels[k])),
                 date |-> IF by = "month" THEN strptime_Ym(labels[k]) ELSE labels[k]]]]

\* The loop of lines 308-339 over the fuel types fts.
RECURSIVE WriteSummaries(_, _, _)
WriteSummaries(s, fts, data) ==
    IF fts = <<>> THEN s
    ELSE LET id == Len(s.fuel_type_summary) + 1
             daily == SummaryRows(data, Head(fts), id, "date")
             monthly == SummaryRows(data, Head(fts), id, "month")
         IN  WriteSummaries(
                 [fuel_type_summary |-> Append(s.fuel_type_summary,
                                               [fuel_type |-> Head(fts)]),
                  daily_usage_summary |->
                      [kind \in Kinds |-> s.daily_usage_summary[kind] \o daily[kind]],
                  monthly_usage_summary |->
                      [kind \in Kinds |-> s.monthly_usage_summary[kind] \o monthly[kind]]],
                 Tail(fts), data)

SummaryTables ==
    [fuel_type_summary |-> fuel_type_summary,
     daily_usage_summary |-> daily_usage_summary,
     monthly_usage_summary |-> monthly_usage_summary]

\* ProjectBlock.compute_summary_timeseries: the summary tables it leaves and
\* how it ended.
compute_summary_timeseries(t, s) ==
    LET acc == GatherProjects(t, BlockProjects, [fuel_types |-> <<>>, data |-> <<>>])
    IN  IF FirstFault(t, BlockProjects) # "none"
        THEN [tables |-> s, result |-> FirstFault(t, BlockProjects)]
        ELSE [tables |-> WriteSummaries(s, acc.fuel_types, acc.data),
              result |-> "returned"]

\* Line 413: the default of valid_meter_run's threshold.
DefaultThreshold == 20

\* A validity test that lets a CVRMSE equal to the threshold pass.
valid_up_to_threshold(run, threshold) ==
    IF run.cvrmse_baseline = None \/ run.cvrmse_reporting = None THEN FALSE
    ELSE /\ ~FLess(Fl(threshold), Val(run.cvrmse_baseline))
         /\ ~FLess(Fl(threshold), Val(run.cvrmse_reporting))

\* MeterRun.valid_meter_run(threshold).
valid_meter_run(run, threshold) ==
    IF run.cvrmse_baseline = None \/ run.cvrmse_reporting = None THEN FALSE
    ELSE /\ FLess(Val(run.cvrmse_baseline), Fl(threshold))
         /\ FLess(Val(run.cvrmse_reporting), Fl(threshold))

\* The thresholds valid_meter_run is called with: the default, one below and
\* one above; the CVRMSE values a MeterRun is given around them.
Thresholds == {DefaultThreshold - 1, DefaultThreshold, DefaultThreshold + 1}
CvrmseValues ==
    {None} \cup {Some(Frac(x, 2)) : x \in {0, 2 * DefaultThreshold - 2,
                                          2 * DefaultThreshold - 1,
                                          2 * DefaultThreshold,
                                          2 * DefaultThreshold + 1,
                                          2 * DefaultThreshold + 2}}

\* The oldest FuelTypeSummary of the fuel type in the place of the latest.
first_summary(fts, fuel_type) ==
    CHOOSE i \in DOMAIN fts :
        /\ fts[i].fuel_type = fuel_type
        /\ \A j \in DOMAIN fts : fts[j].fuel_type = fuel_type => i <= j

\* Line 343: fueltypesummary_set.filter(fuel_type=fuel_type).latest('added').
latest_summary(fts, fuel_type) ==
    CHOOSE i \in DOMAIN fts :
        /\ fts[i].fuel_type = fuel_type
        /\ \A j \in DOMAIN fts : fts[j].fuel_type = fuel_type => j <= i

\* ProjectBlock.recent_summaries with the fuel types of the set of line 342
\* iterated in the order `order`: the ids of the summaries returned.
recent_summaries(fts, order) ==
    [k \in DOMAIN order |-> latest_summary(fts, order[k])]

\* The orders a Python set of the fuel types of the summaries can iterate in.
set_orders(fts) ==
    LET S == {fts[i].fuel_type : i \in DOMAIN fts}
    IN  {q \in [1..Cardinality(S) -> S] : Range(q) = S}

(* ------------------------------- actions ------------------------------- *)
MeterTypes == {"residential", "commercial"}
\* The (start_date, end_date) arguments: the defaults, one day, no day.
Windows == {<<None, None>>, <<Some(2), None>>, <<Some(2), Some(2)>>}

\* The calls of run_meter on p the model makes: any meter type and window
\* with collaborators that answer as documented, and the default call with
\* each of the other behaviours of Envs(p).
Calls(p) ==
    {[meter_type |-> m, start_date |-> w[1], end_date |-> w[2], env |-> CleanEnv] :
        m \in MeterTypes, w \in Windows}
    \cup {[meter_type |-> "residential", start_date |-> None, end_date |-> None,
           env |-> e] : e \in Envs(p)}

\* The bounds leave room for one more MeterRun of every stream of ps.
Room(ps) ==
    /\ Len(meter_run) + Cardinality(UNION {Range(StreamsOf(p)) : p \in ps}) <= MaxRuns
    /\ \A p \in ps : \A c \in Range(StreamsOf(p)) :
          Cardinality({i \in DOMAIN meter_run : meter_run[i].consumption_metadata = c})
              < MaxRunsPerStream

\* What outcome keeps of a run_meter call.
CallInfo(r) ==
    [project |-> r.project, result |-> r.result, returned |-> r.returned,
     start |-> r.start, days |-> r.days]

NoOutcome ==
    [op |-> "none", meter_type |-> "none", result |-> "none", calls |-> <<>>,
     written |-> <<>>]

SetMeterTables(t) ==
    /\ meter_run' = t.meter_run
    /\ daily_usage_baseline' = t.daily_usage_baseline
    /\ daily_usage_reporting' = t.daily_usage_reporting
    /\ monthly_average_usage_baseline' = t.monthly_average_usage_baseline
    /\ monthly_average_usage_reporting' = t.monthly_average_usage_reporting

Init ==
    /\ \E fx \in Fixtures :
          /\ project = fx.project
          /\ consumption_metadata = fx.consumption_metadata
    /\ meter_run = <<>>
    /\ daily_usage_baseline = <<>>
    /\ daily_usage_reporting = <<>>
    /\ monthly_average_usage_baseline = <<>>
    /\ monthly_average_usage_reporting = <<>>
    /\ fuel_type_summary = <<>>
    /\ daily_usage_summary = [kind \in Kinds |-> <<>>]
    /\ monthly_usage_summary = [kind \in Kinds |-> <<>>]
    /\ outcome = NoOutcome

\* What a call of run_meter or run_meters leaves: the tables and the outcome.
MeterCallDone(op, meter_type, tables, calls) ==
    /\ SetMeterTables(tables)
    /\ outcome' = [op |-> op,
                   meter_type |-> meter_type,
                   result |-> IF calls[Len(calls)].result = "skipped"
                              THEN "returned" ELSE calls[Len(calls)].result,
                   calls |-> [i \in DOMAIN calls |-> CallInfo(calls[i])],
                   written |-> <<>>]
    /\ UNCHANGED <<project, consumption_metadata, fuel_type_summary,
                   daily_usage_summary, monthly_usage_summary>>

RunMeterDone(meter_type, r) ==
    MeterCallDone("run_meter", meter_type, r.tables, <<r>>)
RunMetersDone(meter_type, r) ==
    MeterCallDone("run_meters", meter_type, r.tables, r.calls)

\* project.run_meter(meter_type, start_date, end_date)
RunMeter ==
    \E p \in Projects : \E call \in Calls(p) :
        /\ Room({p})
        /\ RunMeterDone(call.meter_type,
                        run_meter(MeterTables, p, call.meter_type, call.start_date,
                                  call.end_date, call.env))

\* project_block.run_meters(meter_type, start_date, end_date); the
\* collaborators deviate during the call of at most one project.
RunMeters ==
    \E q \in Projects : \E call \in Calls(q) :
        /\ Room(Projects)
        /\ RunMetersDone(call.meter_type,
                         run_meters(MeterTables, <<>>, BlockProjects, call.meter_type,
                                    call.start_date, call.end_date,
                                    [p \in Projects |-> IF p = q THEN call.env
                                                        ELSE CleanEnv]))

\* What a call of compute_summary_timeseries leaves.
SummaryCallDone(r) ==
    /\ fuel_type_summary' = r.tables.fuel_type_summary
    /\ daily_usage_summary' = r.tables.daily_usage_summary
    /\ monthly_usage_summary' = r.tables.monthly_usage_summary
    /\ outcome' = [op |-> "compute_summary_timeseries", meter_type |-> "none",
                   result |-> r.result,
                   calls |-> <<>>,
                   written |-> [i \in 1..(Len(r.tables.fuel_type_summary)
                                          - Len(fuel_type_summary)) |->
                                   Len(fuel_type_summary) + i]]
    /\ UNCHANGED <<project, consumption_metadata, meter_run,
                   daily_usage_baseline, daily_usage_reporting,
                   monthly_average_usage_baseline,
                   monthly_average_usage_reporting>>

\* project_block.compute_summary_timeseries()
ComputeSummaryTimeseries ==
    /\ Len(fuel_type_summary) < MaxSummaries
    /\ SummaryCallDone(compute_summary_timeseries(MeterTables, SummaryTables))

\* project_block.recent_summaries(): reads, and changes no table.
RecentSummaries ==
    \E order \in set_orders(fuel_type_summary) :
        /\ outcome' = [op |-> "recent_summaries", meter_type |-> "none",
                       result |-> "returned", calls |-> <<>>,
                       written |-> recent_summaries(fuel_type_summary, order)]
        /\ UNCHANGED <<project, consumption_metadata, meter_run,
                       daily_usage_baseline, daily_usage_reporting,
                       monthly_average_usage_baseline,
                       monthly_average_usage_reporting, fuel_type_summary,
                       daily_usage_summary, monthly_usage_summary>>

\* meter_run.valid_meter_run(threshold): reads, and changes no table.
ValidMeterRun ==
    \E id \in DOMAIN meter_run : \E threshold \in Thresholds :
        /\ outcome' = [op |-> "valid_meter_run", meter_type |-> "none",
                       result |-> IF valid_meter_run(meter_run[id], threshold)
                                  THEN "True" ELSE "False",
                       calls |-> <<>>, written |-> <<>>,
                       meter_run |-> id, threshold |-> threshold]
        /\ UNCHANGED <<project, consumption_metadata, meter_run,
                       daily_usage_baseline, daily_usage_reporting,
                       monthly_average_usage_baseline,
                       monthly_average_usage_reporting, fuel_type_summary,
                       daily_usage_summary, monthly_usage_summary>>

Next == RunMeter \/ RunMeters \/ ComputeSummaryTimeseries \/ RecentSummaries

Spec == Init /\ [][Next]_vars

\* valid_meter_run on its own: one MeterRun of stream c1 with each pair of
\* CVRMSE values, asked for its validity with each threshold.
InitValid ==
    /\ project = RegularProject
    /\ consumption_metadata = RegularMetadata
    /\ \E b \in CvrmseValues : \E r \in CvrmseValues :
          meter_run = <<meter_run_row("p1", "c1", "electricity",
                                      [FullFit("electricity") EXCEPT
                                          !.cvrmse_baseline = b,
                                          !.cvrmse_reporting = r])>>
    /\ daily_usage_baseline = <<>>
    /\ daily_usage_reporting = <<>>
    /\ monthly_average_usage_baseline = <<>>
    /\ monthly_average_usage_reporting = <<>>
    /\ fuel_type_summary = <<>>
    /\ daily_usage_summary = [kind \in Kinds |-> <<>>]
    /\ monthly_usage_summary = [kind \in Kinds |-> <<>>]
    /\ outcome = NoOutcome

NextValid == ValidMeterRun

SpecValid == InitValid /\ [][NextValid]_vars

(* ------------------------- reading the tables -------------------------- *)
\* The rows of a table that belong to MeterRun id, or to FuelTypeSummary id.
RowsOfRun(table, id) == SelectSeq(table, LAMBDA row : row.meter_run = id)
RowsOfSummary(table, id) == SelectSeq(table, LAMBDA row : row.fuel_type_summary = id)
DatesOf(rows) == {rows[i].date : i \in DOMAIN rows}

\* The value a MeterRun's row of the given date holds.
ValueOn(table, id, d) ==
    (CHOOSE row \in Range(RowsOfRun(table, id)) : row.date = d).value

\* The streams of the block's projects, and the latest MeterRun of each
\* stream of fuel type ft that has one.
BlockStreams == UNION {Range(StreamsOf(BlockProjects[k])) : k \in DOMAIN BlockProjects}
LatestRunIds(ft) ==
    {id \in DOMAIN meter_run :
        /\ meter_run[id].consumption_metadata \in BlockStreams
        /\ consumption_metadata[meter_run[id].consumption_metadata].fuel_type = ft
        /\ \A j \in DOMAIN meter_run :
              meter_run[j].consumption_metadata = meter_run[id].consumption_metadata
                  => j <= id}

\* The NaN-ignoring sum of the values of a function.
RECURSIVE NanSumOf(_)
NanSumOf(f) ==
    IF DOMAIN f = {} THEN Fl(0)
    ELSE LET x == CHOOSE x \in DOMAIN f : TRUE
             rest == NanSumOf([y \in DOMAIN f \ {x} |-> f[y]])
         IN  IF f[x].nan THEN rest ELSE FAdd(f[x], rest)

\* The window of a call, in days.
DaysOf(call) == IF call.days < 0 THEN 0 ELSE call.days

\* The last call was op and it returned.
Returned(op) == outcome.op = op /\ outcome.result = "returned"

(* ------------------------------- claims -------------------------------- *)

\* C1: every MeterRun a completed run_meter call returns has as many
\* DailyUsageBaseline rows as DailyUsageReporting rows, and both are the
\* number of days of the evaluation window, whatever the weather source and
\* model.transform return. The code zips the two projections with
\* range(days), so a short temperature sequence leaves fewer rows.
C1_DailyRowsCoverWindow ==
    \A i \in DOMAIN outcome.calls : \A id \in Range(outcome.calls[i].returned) :
        /\ Len(RowsOfRun(daily_usage_baseline, id)) = DaysOf(outcome.calls[i])
        /\ Len(RowsOfRun(daily_usage_reporting, id)) = DaysOf(outcome.calls[i])

\* C2: for every project of the block and every DailyUsageBaseline row of
\* one of its latest MeterRuns, the zipped loop appends one entry for the
\* row's date d whose actual value is the run's baseline value of d when
\* d <= reporting_period_start, and the run's reporting value of d when
\* d > reporting_period_start of that same project.
C2_ActualSwitchesAtOwnReportingStart ==
    \A k \in DOMAIN BlockProjects : \A c \in Range(StreamsOf(BlockProjects[k])) :
        (/\ RunsOf(MeterTables, c) # {}
         /\ Len(RowsOfRun(daily_usage_baseline, latest_added(MeterTables, c)))
               = Len(RowsOfRun(daily_usage_reporting, latest_added(MeterTables, c))))
        => LET p  == BlockProjects[k]
               id == latest_added(MeterTables, c)
               entries == Appended(MeterTables, p, id)
           IN  \A d \in DatesOf(RowsOfRun(daily_usage_baseline, id)) :
                  /\ Cardinality({i \in DOMAIN entries : entries[i].date = d}) = 1
                  /\ \A i \in DOMAIN entries :
                        entries[i].date = d =>
                           entries[i].actual =
                              IF d <= project[p].reporting_period_start
                              THEN ValueOn(daily_usage_baseline, id, d)
                              ELSE ValueOn(daily_usage_reporting, id, d)

\* C2 witness: compute_summary_timeseries has returned, and the latest run of
\* a stream of p1 has a row on p1's reporting start and one after it, each
\* with a baseline value that differs from the reporting value.
C2_Witness ==
    /\ Returned("compute_summary_timeseries")
    /\ \E id \in LatestRunIds("E") :
          /\ meter_run[id].project = "p1"
          /\ \E d1, d2 \in DatesOf(RowsOfRun(daily_usage_baseline, id)) :
                /\ d1 = project["p1"].reporting_period_start
                /\ d2 > d1
                /\ ValueOn(daily_usage_baseline, id, d1)
                      # ValueOn(daily_usage_reporting, id, d1)
                /\ ValueOn(daily_usage_baseline, id, d2)
                      # ValueOn(daily_usage_reporting, id, d2)

\* What one latest MeterRun contributes to a regime on day d.
Contribution(kind, id, d) ==
    CASE kind = "baseline"  -> ValueOn(daily_usage_baseline, id, d)
      [] kind = "reporting" -> ValueOn(daily_usage_reporting, id, d)
      [] kind = "actual"    ->
            IF d <= project[meter_run[id].project].reporting_period_start
            THEN ValueOn(daily_usage_baseline, id, d)
            ELSE ValueOn(daily_usage_reporting, id, d)

\* The (run, day) pairs of fuel type ft: the latest runs' daily rows.
Contributors(ft) ==
    {<<id, d>> \in LatestRunIds(ft) \X DatesOf(daily_usage_baseline) :
        d \in DatesOf(RowsOfRun(daily_usage_baseline, id))}

ExpectedDaily(ft, kind, d) ==
    NanSumOf([x \in {y \in Contributors(ft) : y[2] = d} |->
                 Contribution(kind, x[1], x[2])])

ExpectedMonthly(ft, kind, m) ==
    NanSumOf([x \in {y \in Contributors(ft) : strftime_Ym(y[2]) = m} |->
                 Contribution(kind, x[1], x[2])])

\* C3: in every FuelTypeSummary a returned compute_summary_timeseries wrote,
\* each regime has one daily row per date on which a latest MeterRun of the
\* fuel type has a daily row, and one monthly row per month of such a date;
\* the value is the NaN-ignoring sum of that regime's values over exactly
\* those runs' rows of the date (of the month).
C3_SummariesAreNanSums ==
    Returned("compute_summary_timeseries") =>
        \A f \in Range(outcome.written) : \A kind \in Kinds :
            LET ft      == fuel_type_summary[f].fuel_type
                dates   == {x[2] : x \in Contributors(ft)}
                months  == {strftime_Ym(d) : d \in dates}
                daily   == RowsOfSummary(daily_usage_summary[kind], f)
                monthly == RowsOfSummary(monthly_usage_summary[kind], f)
            IN  /\ DatesOf(daily) = dates
                /\ Len(daily) = Cardinality(dates)
                /\ \A i \in DOMAIN daily :
                      daily[i].value = ExpectedDaily(ft, kind, daily[i].date)
                /\ DatesOf(monthly) = {strptime_Ym(m) : m \in months}
                /\ Len(monthly) = Cardinality(months)
                /\ \A m \in months : \A i \in DOMAIN monthly :
                      monthly[i].date = strptime_Ym(m) =>
                         monthly[i].value = ExpectedMonthly(ft, kind, m)

\* C3 witness: a summary was written in which two projects contribute to one
\* date, one of them with a NaN, and the actual row of a date is the sum of
\* two values.
C3_Witness ==
    /\ Returned("compute_summary_timeseries")
    /\ \E f \in Range(outcome.written) :
          LET ft == fuel_type_summary[f].fuel_type
          IN  /\ \E x, y \in Contributors(ft) :
                    /\ x[2] = y[2] /\ x[1] # y[1]
                    /\ ~Contribution("actual", x[1], x[2]).nan
                    /\ ~Contribution("actual", y[1], y[2]).nan
                    /\ \E i \in DOMAIN daily_usage_summary["actual"] :
                          /\ daily_usage_summary["actual"][i].fuel_type_summary = f
                          /\ daily_usage_summary["actual"][i].date = x[2]
                          /\ daily_usage_summary["actual"][i].value =
                                FAdd(Contribution("actual", x[1], x[2]),
                                     Contribution("actual", y[1], y[2]))
              /\ \E z \in Contributors(ft) : Contribution("baseline", z[1], z[2]).nan

\* C4: a persisted MeterRun is never without its child rows or with part of
\* them: it has its monthly rows of both regimes (run_meter writes at least
\* the window's first month) and as many DailyUsageBaseline rows as
\* DailyUsageReporting rows. The code saves the MeterRun first and each child
\* row on its own, so a call that raises after line 190 leaves the run alone.
C4_MeterRunAndChildrenAreAtomic ==
    \A id \in DOMAIN meter_run :
        /\ RowsOfRun(monthly_average_usage_baseline, id) # <<>>
        /\ RowsOfRun(monthly_average_usage_reporting, id) # <<>>
        /\ Len(RowsOfRun(daily_usage_baseline, id))
              = Len(RowsOfRun(daily_usage_reporting, id))

\* C5: a MeterRun whose stream got no fitted parameters for a regime comes
\* from a call that went on (the run has its monthly rows), and has no daily
\* usage of that regime computed from any parameters. The code leaves the
\* local model_parameters_baseline unbound, or bound by the previous stream.
C5_MissingFitIsUnknownNotFabricated ==
    \A id \in DOMAIN meter_run :
        /\ meter_run[id].model_parameter_json_baseline = None =>
              /\ RowsOfRun(monthly_average_usage_baseline, id) # <<>>
              /\ \A row \in Range(RowsOfRun(daily_usage_baseline, id)) : row.value.nan
        /\ meter_run[id].model_parameter_json_reporting = None =>
              /\ RowsOfRun(monthly_average_usage_reporting, id) # <<>>
              /\ \A row \in Range(RowsOfRun(daily_usage_reporting, id)) : row.value.nan

\* C6: a fault of one project's evaluation does not keep run_meters from
\* calling run_meter for every project of the block, and an unsupported fuel
\* type of one stream does not keep the project's other streams from getting
\* their MeterRun. The code has no handler: the exception ends the loops.
C6_FailuresAreIsolated ==
    /\ outcome.op = "run_meters" => Len(outcome.calls) = Len(BlockProjects)
    /\ \A i \in DOMAIN outcome.calls :
          (outcome.calls[i].result = "KeyError" /\ outcome.meter_type = "residential")
          => \A c \in Range(StreamsOf(outcome.calls[i].project)) :
                consumption_metadata[c].fuel_type \in DOMAIN FUEL_TYPE_CHOICES
                    => RunsOf(MeterTables, c) # {}

\* A project without both coordinates, without weather station and zipcode.
NoUsableLocation(p) ==
    /\ project[p].latitude = None \/ project[p].longitude = None
    /\ project[p].weather_station = None
    /\ project[p].zipcode = None

\* C7: every run_meter call on a project without a usable location
\* descriptor ends as a skip whatever the meter type: nothing is raised,
\* nothing is returned, the project never has a MeterRun, and a call of
\* run_meter alone leaves every table as it was.
C7_NoLocationIsSkipped ==
    [][\A i \in DOMAIN outcome'.calls :
          NoUsableLocation(outcome'.calls[i].project) =>
             /\ outcome'.calls[i].result = "skipped"
             /\ outcome'.calls[i].returned = <<>>
             /\ \A id \in DOMAIN meter_run' :
                   meter_run'[id].project # outcome'.calls[i].project
             /\ outcome'.op = "run_meter" =>
                   UNCHANGED <<meter_run, daily_usage_baseline, daily_usage_reporting,
                               monthly_average_usage_baseline,
                               monthly_average_usage_reporting, fuel_type_summary,
                               daily_usage_summary, monthly_usage_summary>>]_vars

\* C7 witness: run_meter with a meter type the code does not implement was
\* called on a project without location, and was skipped.
C7_Witness ==
    /\ outcome.op = "run_meter"
    /\ outcome.meter_type = "commercial"
    /\ NoUsableLocation(outcome.calls[1].project)
    /\ outcome.calls[1].result = "skipped"

\* The latest MeterRun of a stream of the block has DailyUsageBaseline and
\* DailyUsageReporting row sets of different lengths.
LengthMismatch ==
    \E ft \in {consumption_metadata[c].fuel_type : c \in Streams} :
        \E id \in LatestRunIds(ft) :
            Len(RowsOfRun(daily_usage_baseline, id))
                # Len(RowsOfRun(daily_usage_reporting, id))

\* C8: a compute_summary_timeseries call made while a latest MeterRun has row
\* sets of different lengths does not return, and writes no FuelTypeSummary
\* and no daily or monthly summary row.
C8_LengthMismatchFailsClosed ==
    [][(outcome'.op = "compute_summary_timeseries" /\ LengthMismatch) =>
          /\ outcome'.result # "returned"
          /\ UNCHANGED <<fuel_type_summary, daily_usage_summary,
                         monthly_usage_summary>>]_vars

\* C8 witness: compute_summary_timeseries met such a run, after every stream
\* of the block got a MeterRun, and the assert of line 276 ended it.
C8_Witness ==
    /\ outcome.op = "compute_summary_timeseries"
    /\ outcome.result = "AssertionError"
    /\ LengthMismatch
    /\ \A c \in BlockStreams : RunsOf(MeterTables, c) # {}

\* C9: compute_summary_timeseries returns although a stream of a project of
\* the block has no MeterRun. The code's latest('added') raises DoesNotExist.
C9_StreamWithoutRunIsAbsent ==
    (/\ outcome.op = "compute_summary_timeseries"
     /\ \E c \in BlockStreams : RunsOf(MeterTables, c) = {}
     /\ \E c \in BlockStreams : RunsOf(MeterTables, c) # {}
     /\ ~LengthMismatch)
        => outcome.result = "returned"

IsPrefix(old, new) == Len(old) <= Len(new) /\ SubSeq(new, 1, Len(old)) = old

\* C10: a call of run_meter or run_meters leaves every MeterRun and every
\* daily and monthly row that existed before it as it was, and every
\* run_meter call that returned a list saved exactly one new MeterRun for
\* each consumption stream of its project and returned it.
C10_MeterRunsAreAppendOnly ==
    [][outcome'.op \in {"run_meter", "run_meters"} =>
          /\ IsPrefix(meter_run, meter_run')
          /\ IsPrefix(daily_usage_baseline, daily_usage_baseline')
          /\ IsPrefix(daily_usage_reporting, daily_usage_reporting')
          /\ IsPrefix(monthly_average_usage_baseline, monthly_average_usage_baseline')
          /\ IsPrefix(monthly_average_usage_reporting, monthly_average_usage_reporting')
          /\ \A i \in DOMAIN outcome'.calls :
                outcome'.calls[i].result = "returned" =>
                   /\ Len(outcome'.calls[i].returned)
                         = Len(StreamsOf(outcome'.calls[i].project))
                   /\ \A c \in Range(StreamsOf(outcome'.calls[i].project)) :
                         /\ Cardinality({id \in DOMAIN meter_run' :
                                           meter_run'[id].consumption_metadata = c})
                               = Cardinality(RunsOf(MeterTables, c)) + 1
                         /\ \E id \in Range(outcome'.calls[i].returned) :
                               /\ id > Len(meter_run)
                               /\ meter_run'[id].consumption_metadata = c]_vars

\* C10 witness: run_meter returned, and a stream has two MeterRuns, the
\* older one with its daily rows.
C10_Witness ==
    /\ Returned("run_meter")
    /\ outcome.calls[1].result = "returned"
    /\ \E c \in Range(StreamsOf(outcome.calls[1].project)) :
          /\ Cardinality(RunsOf(MeterTables, c)) = 2
          /\ \E id \in RunsOf(MeterTables, c) :
                /\ id \notin Range(outcome.calls[1].returned)
                /\ RowsOfRun(daily_usage_baseline, id) # <<>>

\* The MeterRuns of stream c that are not its latest one.
OlderRunIds(c) ==
    {id \in DOMAIN meter_run :
        /\ meter_run[id].consumption_metadata = c
        /\ \E j \in DOMAIN meter_run :
              meter_run[j].consumption_metadata = c /\ j > id}

\* C11: when compute_summary_timeseries has returned, every stream of the
\* block has exactly one latest MeterRun, and every daily summary row it
\* wrote is on a date of a latest MeterRun of the fuel type and holds the
\* NaN-ignoring sum over the latest MeterRuns alone: an older MeterRun of a
\* stream adds neither a date nor a value.
C11_OnlyLatestRunContributes ==
    Returned("compute_summary_timeseries") =>
        /\ \A c \in BlockStreams :
              Cardinality({id \in DOMAIN meter_run :
                              /\ meter_run[id].consumption_metadata = c
                              /\ id \notin OlderRunIds(c)}) = 1
        /\ \A f \in Range(outcome.written) : \A kind \in Kinds :
              \A i \in DOMAIN daily_usage_summary[kind] :
                 daily_usage_summary[kind][i].fuel_type_summary = f =>
                    LET d  == daily_usage_summary[kind][i].date
                        ft == fuel_type_summary[f].fuel_type
                        latest == {id \in DOMAIN meter_run :
                                     /\ meter_run[id].consumption_metadata \in BlockStreams
                                     /\ consumption_metadata[
                                           meter_run[id].consumption_metadata].fuel_type = ft
                                     /\ id \notin OlderRunIds(meter_run[id].consumption_metadata)
                                     /\ d \in DatesOf(RowsOfRun(daily_usage_baseline, id))}
                    IN  /\ latest # {}
                        /\ daily_usage_summary[kind][i].value
                              = NanSumOf([id \in latest |-> Contribution(kind, id, d)])

\* C11 witness: compute_summary_timeseries returned while a stream has an
\* older MeterRun with a daily row on a date its latest MeterRun has no row
\* on, and another with a value that differs from the latest run's.
C11_Witness ==
    /\ Returned("compute_summary_timeseries")
    /\ outcome.written # <<>>
    /\ \E c \in BlockStreams : \E old \in OlderRunIds(c) :
          \E id \in LatestRunIds(consumption_metadata[c].fuel_type) :
             /\ meter_run[id].consumption_metadata = c
             /\ DatesOf(RowsOfRun(daily_usage_baseline, old))
                   \ DatesOf(RowsOfRun(daily_usage_baseline, id)) # {}
    /\ \E c \in BlockStreams : \E old \in OlderRunIds(c) :
          \E id \in LatestRunIds(consumption_metadata[c].fuel_type) :
             /\ meter_run[id].consumption_metadata = c
             /\ \E d \in DatesOf(RowsOfRun(daily_usage_baseline, old))
                         \cap DatesOf(RowsOfRun(daily_usage_baseline, id)) :
                   ValueOn(daily_usage_baseline, old, d)
                      # ValueOn(daily_usage_baseline, id, d)

\* C12: what recent_summaries returned holds, for every fuel type that has a
\* FuelTypeSummary in the block, exactly one summary of that fuel type, the
\* one created last, and nothing else.
C12_RecentSummariesAreLatestPerFuelType ==
    outcome.op = "recent_summaries" =>
        /\ \A ft \in {fuel_type_summary[i].fuel_type : i \in DOMAIN fuel_type_summary} :
              /\ Cardinality({k \in DOMAIN outcome.written :
                                 fuel_type_summary[outcome.written[k]].fuel_type = ft}) = 1
              /\ \A k \in DOMAIN outcome.written :
                    fuel_type_summary[outcome.written[k]].fuel_type = ft =>
                       \A j \in DOMAIN fuel_type_summary :
                          fuel_type_summary[j].fuel_type = ft => j <= outcome.written[k]
        /\ \A k \in DOMAIN outcome.written : outcome.written[k] \in DOMAIN fuel_type_summary

\* C12 witness: recent_summaries returned while the block has summaries of
\* two fuel types, one of them written by two compute_summary_timeseries calls.
C12_Witness ==
    /\ outcome.op = "recent_summaries"
    /\ Len(outcome.written) = 2
    /\ \E i, j \in DOMAIN fuel_type_summary :
          i < j /\ fuel_type_summary[i].fuel_type = fuel_type_summary[j].fuel_type

\* C13: every MeterRun has annual_savings unknown when one of its two annual
\* usages is unknown, and otherwise annual_usage_baseline minus
\* annual_usage_reporting.
C13_AnnualSavingsIsDifferenceOrUnknown ==
    \A id \in DOMAIN meter_run :
        IF meter_run[id].annual_usage_baseline = None
           \/ meter_run[id].annual_usage_reporting = None
        THEN meter_run[id].annual_savings = None
        ELSE /\ meter_run[id].annual_savings # None
             /\ Val(meter_run[id].annual_savings)
                   = FSub(Val(meter_run[id].annual_usage_baseline),
                          Val(meter_run[id].annual_usage_reporting))

\* C13 witness: run_meter saved a MeterRun with both usages and savings of
\* 40, one without its baseline usage and one without its reporting usage.
C13_Witness ==
    /\ \E id \in DOMAIN meter_run :
          /\ meter_run[id].annual_usage_baseline = Some(Fl(100))
          /\ meter_run[id].annual_usage_reporting = Some(Fl(60))
          /\ meter_run[id].annual_savings = Some(Fl(40))
    /\ \E id \in DOMAIN meter_run :
          /\ meter_run[id].annual_usage_baseline = None
          /\ meter_run[id].annual_usage_reporting # None
    /\ \E id \in DOMAIN meter_run :
          /\ meter_run[id].annual_usage_baseline # None
          /\ meter_run[id].annual_usage_reporting = None

\* C14: valid_meter_run(threshold) answers True exactly when both CVRMSE
\* values of the MeterRun are present and each is strictly below the
\* threshold; a CVRMSE equal to the threshold or absent gives False.
C14_ValidIffBothCvrmseBelowThreshold ==
    outcome.op = "valid_meter_run" =>
        LET run == meter_run[outcome.meter_run]
        IN  (outcome.result = "True") <=>
               /\ run.cvrmse_baseline # None
               /\ run.cvrmse_reporting # None
               /\ Val(run.cvrmse_baseline).num
                     < outcome.threshold * Val(run.cvrmse_baseline).den
               /\ Val(run.cvrmse_reporting).num
                     < outcome.threshold * Val(run.cvrmse_reporting).den

\* C14 witness: valid_meter_run with the default threshold answered False for
\* a MeterRun whose reporting CVRMSE is exactly the threshold and whose
\* baseline CVRMSE is below it.
C14_Witness ==
    /\ outcome.op = "valid_meter_run"
    /\ outcome.threshold = DefaultThreshold
    /\ outcome.result = "False"
    /\ meter_run[outcome.meter_run].cvrmse_reporting = Some(Fl(DefaultThreshold))
    /\ meter_run[outcome.meter_run].cvrmse_baseline = Some(Frac(2 * DefaultThreshold - 1, 2))

\* The values of the daily rows of a MeterRun that fall in month m.
DailyValuesIn(table, id, m) ==
    SelectSeq(RowsOfRun(table, id), LAMBDA row : strftime_Ym(row.date) = m)

\* The NaN-ignoring mean of the values of a sequence of rows that is not
\* empty: NaN when every value is NaN.
NanMeanOfRows(rows) ==
    LET kept == {i \in DOMAIN rows : ~rows[i].value.nan}
        total == NanSumOf([i \in kept |-> rows[i].value])
    IN  IF kept = {} THEN NaN
        ELSE Frac(total.num, total.den * Cardinality(kept))

MonthlyValueIsMeanOrZero(monthly, daily) ==
    \A i \in DOMAIN monthly :
        LET rows == DailyValuesIn(daily, monthly[i].meter_run,
                                  strftime_Ym(monthly[i].date))
        IN  monthly[i].value = IF rows = <<>> THEN Fl(0) ELSE NanMeanOfRows(rows)

\* C15: every MonthlyAverageUsageBaseline/Reporting row holds exactly 0 when
\* its MeterRun has no daily row of that regime in the month, and otherwise
\* the NaN-ignoring mean of the MeterRun's daily values of that regime in
\* the month.
C15_MonthlyAverageIsMeanOrZero ==
    /\ MonthlyValueIsMeanOrZero(monthly_average_usage_baseline, daily_usage_baseline)
    /\ MonthlyValueIsMeanOrZero(monthly_average_usage_reporting, daily_usage_reporting)

\* C15 witness: run_meter returned for an empty window, whose first month has
\* a monthly row of 0 and no daily row, and a MeterRun has a month with two
\* daily values and their mean, and one a month whose only daily value is NaN.
C15_Witness ==
    /\ Returned("run_meter")
    /\ outcome.calls[1].days = 0
    /\ \E id \in Range(outcome.calls[1].returned) :
          /\ RowsOfRun(daily_usage_reporting, id) = <<>>
          /\ \E row \in Range(RowsOfRun(monthly_average_usage_reporting, id)) :
                row.value = Fl(0)
    /\ \E i \in DOMAIN monthly_average_usage_baseline :
          LET rows == DailyValuesIn(daily_usage_baseline,
                                    monthly_average_usage_baseline[i].meter_run,
                                    strftime_Ym(monthly_average_usage_baseline[i].date))
          IN  /\ Len(rows) = 2
              /\ rows[1].value # rows[2].value
              /\ ~rows[1].value.nan /\ ~rows[2].value.nan
    /\ \E i \in DOMAIN monthly_average_usage_baseline :
          monthly_average_usage_baseline[i].value.nan

\* The example's project: p1, whose natural-gas stream c2 is alone of its
\* fuel type in the block. Its latest MeterRun covers three days, the second
\* of which is p1's reporting start, with temperatures 30, 40 and 50; f_b and
\* f_r are the transforms with the stream's fitted parameters.
ExampleTemps == <<Fl(30), Fl(40), Fl(50)>>
Example_f_b == transform(ExampleTemps, Val(FullFit("natural_gas").model_params_baseline))
Example_f_r == transform(ExampleTemps, Val(FullFit("natural_gas").model_params_reporting))

ValuesOfRows(rows) == [i \in DOMAIN rows |-> rows[i].value]

\* compute_summary_timeseries returned and wrote the summary f of natural
\* gas while the example's MeterRun was the latest of c2.
ExampleSummary(f) ==
    /\ Returned("compute_summary_timeseries")
    /\ f \in Range(outcome.written)
    /\ fuel_type_summary[f].fuel_type = "NG"
    /\ project["p1"].reporting_period_start = 1
    /\ \E id \in LatestRunIds("NG") :
          /\ meter_run[id].consumption_metadata = "c2"
          /\ [i \in 1..3 |-> Temperature(i - 1)] = ExampleTemps
          /\ DatesOf(RowsOfRun(daily_usage_baseline, id)) = {0, 1, 2}
          /\ [i \in 1..3 |-> ValueOn(daily_usage_baseline, id, i - 1)] = Example_f_b
          /\ [i \in 1..3 |-> ValueOn(daily_usage_reporting, id, i - 1)] = Example_f_r

\* C16 as the specification states it: the actual series of the example is
\* f_b(30), f_r(40), f_r(50).
C16_ExampleAsStated ==
    \A f \in DOMAIN fuel_type_summary :
        ExampleSummary(f) =>
            ValuesOfRows(RowsOfSummary(daily_usage_summary["actual"], f))
                = <<Example_f_b[1], Example_f_r[2], Example_f_r[3]>>

\* C16: in the example the actual series compute_summary_timeseries writes
\* is f_b(30), f_b(40), f_r(50): the day of the reporting start itself still
\* contributes its baseline value, the switch is on the day after.
C16_ExampleSwitchesAfterReportingStart ==
    \A f \in DOMAIN fuel_type_summary :
        ExampleSummary(f) =>
            ValuesOfRows(RowsOfSummary(daily_usage_summary["actual"], f))
                = <<Example_f_b[1], Example_f_b[2], Example_f_r[3]>>

\* C16 witness: the example's summary was written, and f_b and f_r differ on
\* the day of the reporting start.
C16_Witness ==
    /\ \E f \in DOMAIN fuel_type_summary : ExampleSummary(f)
    /\ Example_f_b[2] # Example_f_r[2]

\* The monthly rows of a MeterRun are on the first days of the months of
\* `months`, one row per month, saved in strictly increasing order.
OneRowPerMonthAscending(table, id, months) ==
    LET rows == RowsOfRun(table, id)
    IN  /\ {rows[i].date : i \in DOMAIN rows} = {strptime_Ym(m) : m \in months}
        /\ Len(rows) = Cardinality(months)
        /\ \A i, j \in DOMAIN rows : i < j => rows[i].date < rows[j].date

\* C17: for every MeterRun a run_meter call returned, the months visited are
\* the month of the window's start and the months of the MeterRun's daily
\* rows; each regime has exactly one monthly row per visited month, and the
\* rows were saved in strictly increasing order of month, none twice.
C17_OneMonthlyRowPerVisitedMonth ==
    \A k \in DOMAIN outcome.calls :
        outcome.calls[k].result = "returned" =>
            \A id \in Range(outcome.calls[k].returned) :
                LET visited == {strftime_Ym(outcome.calls[k].start)}
                                  \cup {strftime_Ym(d) :
                                          d \in DatesOf(RowsOfRun(daily_usage_baseline, id))}
                IN  /\ OneRowPerMonthAscending(monthly_average_usage_baseline, id, visited)
                    /\ OneRowPerMonthAscending(monthly_average_usage_reporting, id, visited)

\* C17 witness: run_meter returned a MeterRun whose daily rows fall in two
\* months, and one for an empty window that starts in a later month.
C17_Witness ==
    /\ Returned("run_meter")
    /\ outcome.calls[1].result = "returned"
    /\ \E id \in Range(outcome.calls[1].returned) :
          /\ Cardinality({strftime_Ym(d) :
                            d \in DatesOf(RowsOfRun(daily_usage_baseline, id))}) = 2
          /\ Len(RowsOfRun(monthly_average_usage_baseline, id)) = 2
    /\ \E id \in DOMAIN meter_run :
          /\ RowsOfRun(daily_usage_baseline, id) = <<>>
          /\ Len(RowsOfRun(monthly_average_usage_baseline, id)) = 1
          /\ Len(RowsOfRun(monthly_average_usage_reporting, id)) = 1

\* The rows are in strictly ascending order of date.
Ascending(rows) == \A i, j \in DOMAIN rows : i < j => rows[i].date < rows[j].date

\* The sum of the values of the rows of a summary whose date is in month m.
SumOfDailyIn(rows, m) ==
    NanSumOf([i \in {j \in DOMAIN rows : strftime_Ym(rows[j].date) = m} |->
                 rows[i].value])

\* C18: in every FuelTypeSummary a returned compute_summary_timeseries
\* wrote, the three daily summaries have the same dates, the three monthly
\* summaries the same months, each with one row per date (month) in
\* ascending order; the months are those of the dates, and every monthly
\* value is the sum of the regime's daily summary values of that month.
C18_MonthlySummaryIsSumOfDaily ==
    Returned("compute_summary_timeseries") =>
        \A f \in Range(outcome.written) : \A kind \in Kinds :
            LET daily   == RowsOfSummary(daily_usage_summary[kind], f)
                monthly == RowsOfSummary(monthly_usage_summary[kind], f)
            IN  /\ DatesOf(daily)
                      = DatesOf(RowsOfSummary(daily_usage_summary["baseline"], f))
                /\ DatesOf(monthly)
                      = DatesOf(RowsOfSummary(monthly_usage_summary["baseline"], f))
                /\ Ascending(daily)
                /\ Ascending(monthly)
                /\ DatesOf(monthly) = {strptime_Ym(strftime_Ym(d)) : d \in DatesOf(daily)}
                /\ \A i \in DOMAIN monthly :
                      monthly[i].value
                         = SumOfDailyIn(daily, strftime_Ym(monthly[i].date))

\* C18 witness: a summary was written with daily rows in two months, two of
\* them in one month with values that are not zero, and no NaN among the
\* daily values of the MeterRuns of the fuel type.
C18_Witness ==
    /\ Returned("compute_summary_timeseries")
    /\ \E f \in Range(outcome.written) :
          LET daily == RowsOfSummary(daily_usage_summary["actual"], f)
          IN  /\ Len(RowsOfSummary(monthly_usage_summary["actual"], f)) = 2
              /\ \E i, j \in DOMAIN daily :
                    /\ i < j
                    /\ strftime_Ym(daily[i].date) = strftime_Ym(daily[j].date)
                    /\ daily[i].value # Fl(0)
                    /\ daily[j].value # Fl(0)
              /\ \A x \in Contributors(fuel_type_summary[f].fuel_type) :
                    ~Contribution("actual", x[1], x[2]).nan

====
